---- MODULE Spec2Model ----
(***************************************************************************)
(* EditorConfig MCP server: the HTTP front-end (server.js) and the stdio   *)
(* JSON-RPC front-end (mcp-server.js) around the eclint formatter.         *)
(*                                                                         *)
(* Strings are sequences of one-character strings, so that path.resolve,   *)
(* String.startsWith, String.includes and the JSON-schema length and       *)
(* pattern keywords are computed rather than assumed.                      *)
(***************************************************************************)
EXTENDS Integers, Sequences, FiniteSets, TLC

(* ------------------------------------------------------------------ *)
(* Bounds of the model                                                 *)
(* ------------------------------------------------------------------ *)

\* longest file_path drawn character by character from PathChars
MaxPathLen == 5

\* longest file_path of a tools/call drawn character by character
MaxRpcPathLen == 3

\* files the src stream may have handed to eclint.fix() that eclint has not
\* answered yet
MaxLag == 1

(* ------------------------------------------------------------------ *)
(* Program constants                                                   *)
(* ------------------------------------------------------------------ *)

\* formatFileSchema.properties.file_path.maxLength
FilePathMaxLength == 1024

\* formatFilesSchema.properties.pattern.maxLength
PatternMaxLength == 256

\* if (fileCount > 1000)
FileLimit == 1000

(* ------------------------------------------------------------------ *)
(* Strings                                                             *)
(* ------------------------------------------------------------------ *)

\* the character \0
NUL == "NUL"

PathChars == {"/", ".", "a", "b"}

\* String.prototype.startsWith
StartsWith(s, prefix) ==
    /\ Len(prefix) <= Len(s)
    /\ SubSeq(s, 1, Len(prefix)) = prefix

\* String.prototype.includes
Includes(s, part) ==
    \E i \in 0..(Len(s) - Len(part)) : SubSeq(s, i + 1, i + Len(part)) = part

\* a string of n copies of the character c
Repeat(c, n) == [i \in 1..n |-> c]

\* every string over PathChars of length 0..n
RECURSIVE StringsUpTo(_)
StringsUpTo(n) ==
    IF n = 0 THEN {<<>>}
    ELSE LET shorter == StringsUpTo(n - 1)
         IN  shorter \cup {Append(s, c) : s \in {t \in shorter : Len(t) = n - 1}, c \in PathChars}

(* ------------------------------------------------------------------ *)
(* path.resolve (posix)                                                *)
(* ------------------------------------------------------------------ *)

\* the k-th smallest element of a finite set of integers
Nth(S, k) == CHOOSE x \in S : Cardinality({y \in S : y < x}) = k - 1

\* s.split('/'): the segments between separators, empty ones included
Split(s) ==
    LET cuts == {0} \cup {i \in 1..Len(s) : s[i] = "/"} \cup {Len(s) + 1}
        n    == Cardinality(cuts) - 1
    IN  [k \in 1..n |-> SubSeq(s, Nth(cuts, k) + 1, Nth(cuts, k + 1) - 1)]

\* normalizeString: "." and empty segments dropped, ".." removes the segment
\* before it (and is dropped at the root of an absolute path)
RECURSIVE NormalizeSegs(_, _)
NormalizeSegs(segs, acc) ==
    IF segs = <<>> THEN acc
    ELSE LET seg  == Head(segs)
             rest == Tail(segs)
         IN  IF seg = <<>> \/ seg = <<".">> THEN NormalizeSegs(rest, acc)
             ELSE IF seg = <<".", ".">>
                  THEN NormalizeSegs(rest, IF acc = <<>> THEN acc
                                           ELSE SubSeq(acc, 1, Len(acc) - 1))
                  ELSE NormalizeSegs(rest, Append(acc, seg))

\* segments joined with "/" in front of each: <<a, b>> gives /a/b
RECURSIVE JoinAbs(_)
JoinAbs(segs) ==
    IF segs = <<>> THEN <<>>
    ELSE <<"/">> \o Head(segs) \o JoinAbs(Tail(segs))

\* the segments of path.resolve(root, p) for an absolute root
ResolveSegs(root, p) ==
    LET full == IF p # <<>> /\ p[1] = "/" THEN p ELSE root \o <<"/">> \o p
    IN  NormalizeSegs(Split(full), <<>>)

\* path.resolve(root, p)
Resolve(root, p) ==
    LET segs == ResolveSegs(root, p)
    IN  IF segs = <<>> THEN <<"/">> ELSE JoinAbs(segs)

\* process.cwd(): the project root
ProjectRoot == <<"/", "a">>

\* function isPathSafe(filePath)
isPathSafe(filePath) ==
    LET absolutePath == Resolve(ProjectRoot, filePath)
    IN  /\ StartsWith(absolutePath, ProjectRoot)
        /\ ~Includes(absolutePath, <<".", ".">>)

(* ------------------------------------------------------------------ *)
(* JSON values and the request schemas                                 *)
(* ------------------------------------------------------------------ *)

\* a JSON string, a JSON number, JSON null, and a property that is not there
Str(s)  == [t |-> "string", s |-> s]
NumV    == [t |-> "number", s |-> <<>>]
NullV   == [t |-> "null", s |-> <<>>]
Absent  == [t |-> "absent", s |-> <<>>]

\* a parsed JSON object with the two known properties and, with extra, one
\* property of another name (wrong_field)
Obj(fp, pat, extra) ==
    [t |-> "object", file_path |-> fp, pattern |-> pat, extra |-> extra]

\* a parsed JSON body that is an array
ArrayBody == [t |-> "array", file_path |-> Absent, pattern |-> Absent, extra |-> FALSE]

Prop(obj, name) == IF name = "file_path" THEN obj.file_path ELSE obj.pattern

OtherProp(obj, name) == IF name = "file_path" THEN obj.pattern ELSE obj.file_path

\* const formatFileSchema
formatFileSchema ==
    [prop |-> "file_path", minLength |-> 1, maxLength |-> FilePathMaxLength,
     required |-> TRUE]

\* const formatFilesSchema
formatFilesSchema ==
    [prop |-> "pattern", minLength |-> 1, maxLength |-> PatternMaxLength,
     required |-> FALSE]

\* the schema's pattern '^[^\0]+$'
MatchesNoNul(s) == Len(s) >= 1 /\ \A i \in 1..Len(s) : s[i] # NUL

ValidateNoAdditionalCheck(schema, body) ==
    /\ body.t = "object"
    /\ schema.required => Prop(body, schema.prop).t # "absent"
    /\ Prop(body, schema.prop).t # "absent" =>
          /\ Prop(body, schema.prop).t = "string"
          /\ MatchesNoNul(Prop(body, schema.prop).s)
          /\ Len(Prop(body, schema.prop).s) >= schema.minLength
          /\ Len(Prop(body, schema.prop).s) <= schema.maxLength

\* ajv.compile(schema)(body): type object, additionalProperties false,
\* required, and the property's type, pattern, minLength and maxLength
Validate(schema, body) ==
    /\ body.t = "object"
    /\ ~body.extra
    /\ OtherProp(body, schema.prop).t = "absent"
    /\ schema.required => Prop(body, schema.prop).t # "absent"
    /\ Prop(body, schema.prop).t # "absent" =>
          /\ Prop(body, schema.prop).t = "string"
          /\ MatchesNoNul(Prop(body, schema.prop).s)
          /\ Len(Prop(body, schema.prop).s) >= schema.minLength
          /\ Len(Prop(body, schema.prop).s) <= schema.maxLength

\* validateFormatFile
validateFormatFile(body) == Validate(formatFileSchema, body)

\* validateFormatFiles
validateFormatFiles(body) == Validate(formatFilesSchema, body)

(* ------------------------------------------------------------------ *)
(* The filesystem                                                      *)
(* ------------------------------------------------------------------ *)

\* three regular files directly in the project root
NamedFiles ==
    << <<"/", "a", "/", "a">>,
       <<"/", "a", "/", "a", ".", "b">>,
       <<"/", "a", "/", "a", ".", ".", "b">> >>

\* a regular file in the sibling directory /ab of the project root /a
SiblingFile == <<"/", "a", "b", "/", "a">>

DigitChars == <<"0", "1", "2", "3", "4", "5", "6", "7", "8", "9">>

\* String(n)
RECURSIVE Digits(_)
Digits(n) ==
    IF n < 10 THEN <<DigitChars[n + 1]>>
    ELSE Append(Digits(n \div 10), DigitChars[(n % 10) + 1])

\* the i-th file of the directory /a/b, which holds nb files named 1..nb
BulkFile(i) == <<"/", "a", "/", "b", "/">> \o Digits(i)

Range(seq) == {seq[i] : i \in 1..Len(seq)}

TrackedFiles == Range(NamedFiles) \cup {SiblingFile}

\* the digits of a bulk file name: non-empty, decimal, no leading zero
IsBulkName(s, nb) ==
    /\ Len(s) >= 1
    /\ \E i \in 1..nb : Digits(i) = s

IsFile(abs, nb) ==
    \/ abs \in TrackedFiles
    \/ /\ StartsWith(abs, <<"/", "a", "/", "b", "/">>)
       /\ IsBulkName(SubSeq(abs, 6, Len(abs)), nb)

\* a directory is there when a file lies below it
IsDir(abs, nb) ==
    \/ abs \in {<<"/">>, <<"/", "a">>, <<"/", "a", "b">>}
    \/ abs = <<"/", "a", "/", "b">> /\ nb > 0

\* the content of a regular file has been rewritten by the formatter or not;
\* formatting appends the missing final newline, one byte
FileSize(abs, fixedFiles) == IF abs \in fixedFiles THEN 2 ELSE 1

\* fs.access(p) from the project root: the outcome of the promise.  A path
\* with no entry rejects with code ENOENT; a value that is no string, or a
\* string holding \0, rejects before the filesystem is asked.
FsAccess(v, nb) ==
    IF v.t # "string" THEN "ERR_INVALID_ARG_TYPE"
    ELSE IF \E i \in 1..Len(v.s) : v.s[i] = NUL THEN "ERR_INVALID_ARG_VALUE"
    ELSE IF \/ IsFile(Resolve(ProjectRoot, v.s), nb)
            \/ IsDir(Resolve(ProjectRoot, v.s), nb)
         THEN "ok"
         ELSE "ENOENT"

(* ------------------------------------------------------------------ *)
(* vfs.src(pattern, {nodir: true, ignore: [...]})                      *)
(* ------------------------------------------------------------------ *)

PatAll  == <<"*", "*", "/", "*">>
PatTop  == <<"*">>
PatBulk == <<"b", "/", "*">>
PatNone == <<"*", ".", "a">>

\* how many files of the project the glob matches, with nb files in /a/b
NumCandidates(pattern, nb) ==
    IF pattern = PatAll THEN nb + Len(NamedFiles)
    ELSE IF pattern = PatBulk THEN nb
    ELSE IF pattern = PatTop THEN Len(NamedFiles)
    ELSE 0

\* the path of the i-th file the src stream emits (file.path is absolute)
Candidate(pattern, nb, i) ==
    IF pattern = PatBulk THEN BulkFile(i)
    ELSE IF pattern = PatTop THEN NamedFiles[i]
    ELSE IF i <= nb THEN BulkFile(i) ELSE NamedFiles[i - nb]

\* vfs.src throws on a glob that is no non-empty string
GlobArgumentOk(v) == v.t = "string" /\ Len(v.s) >= 1

(* ------------------------------------------------------------------ *)
(* Errors                                                              *)
(* ------------------------------------------------------------------ *)

\* new Error('Pattern matches too many files. Limit is 1000.'), in words
TooManyFilesError ==
    [code |-> "none",
     message |-> <<"Pattern", "matches", "too", "many", "files", ".",
                   "Limit", "is", "1000", ".">>]

\* errors the destination stream may emit while it writes a file
DestErrors ==
    { [code |-> "EACCES", message |-> <<"EACCES", ":", "permission", "denied">>],
      [code |-> "EMFILE", message |-> <<"EMFILE", ":", "too", "many", "open", "files">>] }

FsError(code) == [code |-> code, message |-> <<code>>]

InvalidGlobError == [code |-> "none", message |-> <<"Invalid", "glob", "argument">>]

NoError == [code |-> "none", message |-> <<>>]

(* ------------------------------------------------------------------ *)
(* One request                                                         *)
(* ------------------------------------------------------------------ *)

NoArguments == [t |-> "absent", file_path |-> Absent, pattern |-> Absent, extra |-> FALSE]

\* a JSON-RPC request object: params is there or not, and holds name and
\* arguments
RpcRequest(jsonrpc, method, hasParams, name, arguments, id) ==
    [jsonrpc |-> jsonrpc, method |-> method, hasParams |-> hasParams,
     name |-> name, arguments |-> arguments, id |-> id]

NoRpc == RpcRequest("none", "none", FALSE, Absent, NoArguments, 0)

\* the state of one request: the handler's position (pc), its local
\* variables, the streams of its pipeline, and what it has sent
NewRequest(transport, tool, body, rpc) ==
    [transport |-> transport, tool |-> tool, body |-> body, rpc |-> rpc,
     pc |-> "start", arg |-> Absent, pattern |-> <<>>, res |-> <<>>,
     accessCalls |-> 0, adapterCalls |-> 0, writes |-> 0,
     srcState |-> "none", srcPos |-> 0, fileCount |-> 0,
     matchedFiles |-> <<>>, processedFiles |-> <<>>, skippedFiles |-> <<>>,
     queue |-> <<>>, failed |-> {}, finished |-> FALSE,
     promise |-> "none", error |-> NoError]

NoRequest == [NewRequest("none", "none", ArrayBody, NoRpc) EXCEPT !.pc = "idle"]

Some(v) == [defined |-> TRUE, v |-> v]
None == [defined |-> FALSE, v |-> <<>>]

\* res.status(status).json(body) and send(response): the response is out
Respond(r, response) == [r EXCEPT !.res = Append(@, response), !.pc = "responded"]

\* server.js sendError(res, status, message, hint, expected_format)
sendError(status, message, hint, expected_format) ==
    IF expected_format.defined
    THEN [status |-> status,
          body |-> [error |-> message, message |-> message, hint |-> hint,
                    expected_format |-> expected_format.v]]
    ELSE [status |-> status,
          body |-> [error |-> message, message |-> message, hint |-> hint]]

\* mcp-server.js sendError(id, code, message, data)
rpcError(id, code, message, data) ==
    [jsonrpc |-> "2.0", id |-> id,
     error |-> [code |-> code, message |-> message, data |-> data]]

\* send({jsonrpc: '2.0', id, result})
rpcResult(id, result) == [jsonrpc |-> "2.0", id |-> id, result |-> result]

(* ------------------------------------------------------------------ *)
(* format_file                                                         *)
(* ------------------------------------------------------------------ *)

HttpFormatFileEntryPathFirst(r) ==
    IF r.body.file_path.t = "string" /\ ~isPathSafe(r.body.file_path.s)
    THEN Respond(r, sendError(403, "Forbidden path",
                     "File path must be within the project directory", None))
    ELSE IF ~validateFormatFile(r.body)
    THEN Respond(r, sendError(422, "Invalid input", "Check the file_path field",
                     Some([file_path |-> "string (path to file)"])))
    ELSE [r EXCEPT !.pc = "access", !.arg = r.body.file_path,
                   !.accessCalls = @ + 1]

\* app.post('/v1/tools/format_file'), up to the first await: the schema, the
\* path check, then the call of fs.access
HttpFormatFileEntry(r) ==
    IF ~validateFormatFile(r.body)
    THEN Respond(r, sendError(422, "Invalid input", "Check the file_path field",
                     Some([file_path |-> "string (path to file)"])))
    ELSE IF ~isPathSafe(r.body.file_path.s)
    THEN Respond(r, sendError(403, "Forbidden path",
                     "File path must be within the project directory", None))
    ELSE [r EXCEPT !.pc = "access", !.arg = r.body.file_path,
                   !.accessCalls = @ + 1]

\* the catch block of the format_file handler
HttpFormatFileCatch(r, err) ==
    IF err.code = "ENOENT"
    THEN Respond(r, sendError(404, "File not found",
                     <<"File does not exist: ", r.arg.s>>, None))
    ELSE Respond(r, sendError(500, "Processing failed",
                     "An error occurred while formatting the file", None))

\* the catch block of handleRequest
RpcCatch(r, err) ==
    Respond(r, rpcError(r.rpc.id, -32000, "Server error", err.message))

\* the catch block of formatFile, thrown on into handleRequest's
StdioFormatFileCatch(r, err) ==
    IF err.code = "ENOENT"
    THEN RpcCatch(r, [code |-> "none", message |-> <<"File not found: ", r.arg.s>>])
    ELSE RpcCatch(r, err)

FormatFileCatch(r, err) ==
    IF r.transport = "http" THEN HttpFormatFileCatch(r, err)
    ELSE StdioFormatFileCatch(r, err)

AfterAccessIgnoreResult(r, outcome) == [r EXCEPT !.pc = "pipeline"]

\* await fs.access(...) returns or throws; on return the pipeline
\* vfs.src(file).pipe(eclint.fix()).pipe(vfs.dest(dir)) is started
AfterAccess(r, outcome) ==
    IF outcome = "ok" THEN [r EXCEPT !.pc = "pipeline"]
    ELSE FormatFileCatch(r, FsError(outcome))

\* the error eclint.fix() emits when it cannot fix a file
AdapterError == [code |-> "none", message |-> <<"eclint", ":", "cannot", "fix">>]

\* what the single-file pipeline can do with the entry at abs: a regular
\* file is rewritten ("written"), or let through unchanged ("passed"), or
\* the destination stream fails on it, or eclint.fix() emits 'error' for
\* it; a directory is let through.  The 'error' of eclint.fix() has no
\* listener and .pipe() hands no error on to the destination: the event is
\* thrown as an uncaught exception ("exit") or, where the pipe source
\* listens for it, the pipeline stops with its promise pending ("hang")
FilePipelineOutcomes(abs, nb) ==
    IF IsFile(abs, nb)
    THEN {<<"written", NoError>>, <<"passed", NoError>>}
         \cup {<<"destError", e>> : e \in DestErrors}
         \cup {<<"hang", AdapterError>>, <<"exit", AdapterError>>}
    ELSE {<<"passed", NoError>>}

\* .on('finish', resolve).on('error', reject) of the single-file pipeline
AfterFilePipeline(r, outcome) ==
    LET ran == [r EXCEPT !.adapterCalls = @ + 1,
                         !.writes = IF outcome[1] = "written" THEN @ + 1 ELSE @]
    IN  IF outcome[1] = "destError"
        THEN FormatFileCatch(ran, outcome[2])
        ELSE IF outcome[1] = "hang" THEN [ran EXCEPT !.pc = "pending"]
        ELSE IF outcome[1] = "exit" THEN [ran EXCEPT !.pc = "exited"]
        ELSE [ran EXCEPT !.pc = "stat"]

\* const stats = await fs.stat(...) and the success response
AfterStat(r, size) ==
    LET result == [success |-> TRUE, file_path |-> r.arg.s, bytes |-> size]
    IN  IF r.transport = "http"
        THEN Respond(r, [status |-> 200, body |-> result])
        ELSE Respond(r, rpcResult(r.rpc.id,
                         [content |-> <<[type |-> "text", text |-> result]>>]))

(* ------------------------------------------------------------------ *)
(* format_files: the stream pipeline                                   *)
(* ------------------------------------------------------------------ *)

\* resolve() and reject(e): a promise settles once
PromiseResolve(r) ==
    IF r.promise = "pending" THEN [r EXCEPT !.promise = "resolved"] ELSE r

PromiseReject(r, e) ==
    IF r.promise = "pending" THEN [r EXCEPT !.promise = "rejected", !.error = e]
    ELSE r

\* new Promise((resolve, reject) => { const srcStream = vfs.src(pattern, ...)
StartPipeline(r, pattern) ==
    [r EXCEPT !.pc = "streaming", !.pattern = pattern, !.srcState = "flowing",
              !.promise = "pending"]

\* app.post('/v1/tools/format_files') up to the await: the schema, the
\* default pattern, the pipeline
HttpFormatFilesEntry(r) ==
    IF ~validateFormatFiles(r.body)
    THEN Respond(r, sendError(422, "Invalid input", "Check the pattern field",
                     Some([pattern |-> "string (glob pattern, optional)"])))
    ELSE StartPipeline(r, IF r.body.pattern.t = "absent" THEN PatAll
                          ELSE r.body.pattern.s)

\* async function formatFiles(pattern = '**/*') up to the await; vfs.src
\* throws inside the executor on a bad glob, which rejects the promise
StdioFormatFilesEntry(r, v) ==
    LET pattern == IF v.t = "absent" THEN Str(PatAll) ELSE v
    IN  IF GlobArgumentOk(pattern) THEN StartPipeline(r, pattern.s)
        ELSE RpcCatch(r, InvalidGlobError)

HttpSrcDataLimitOff(r, path) ==
    LET counted == [r EXCEPT !.fileCount = @ + 1]
    IN  IF counted.fileCount >= FileLimit
        THEN PromiseReject([counted EXCEPT !.srcState = "destroyed"],
                           TooManyFilesError)
        ELSE [counted EXCEPT !.matchedFiles = Append(@, path)]

\* server.js srcStream.on('data'): count, the limit, matchedFiles.push
HttpSrcData(r, path) ==
    LET counted == [r EXCEPT !.fileCount = @ + 1]
    IN  IF counted.fileCount > FileLimit
        THEN PromiseReject([counted EXCEPT !.srcState = "destroyed"],
                           TooManyFilesError)
        ELSE [counted EXCEPT !.matchedFiles = Append(@, path)]

\* mcp-server.js srcStream.on('data'): count and the limit
StdioSrcData(r, path) ==
    LET counted == [r EXCEPT !.fileCount = @ + 1]
    IN  IF counted.fileCount > FileLimit
        THEN PromiseReject([counted EXCEPT !.srcState = "destroyed"],
                           TooManyFilesError)
        ELSE counted

\* .pipe(eclint.fix()): the emitted file is written to the formatter
PipeToEclint(r, path) ==
    [r EXCEPT !.queue = Append(@, path), !.adapterCalls = @ + 1]

\* one 'data' event of the src stream: the handler, then the pipe
OnSrcData(r, path) ==
    PipeToEclint(IF r.transport = "http" THEN HttpSrcData(r, path)
                 ELSE StdioSrcData(r, path), path)

\* eclint's .on('data', (file) => processedFiles.push(file.path))
OnEclintData(r, path) == [r EXCEPT !.processedFiles = Append(@, path)]

\* eclint's .on('error', (err, file) => { if (file && file.path) ... })
OnEclintError(r, file) ==
    IF file.defined THEN [r EXCEPT !.skippedFiles = Append(@, file.v)] ELSE r

\* matchedFiles.forEach(...) of the 'finish' handler: a matched path that is
\* neither processed nor already skipped is pushed to skipped, once (a
\* second occurrence finds it there)
Reconcile(matched, processedSet, skipped) ==
    LET push(i) == /\ matched[i] \notin processedSet
                   /\ matched[i] \notin Range(skipped)
                   /\ \A j \in 1..(i - 1) : matched[j] # matched[i]
        pushed  == SelectSeq([i \in 1..Len(matched) |-> i], push)
    IN  skipped \o [k \in 1..Len(pushed) |-> matched[pushed[k]]]

HttpOnFinishNoReconcile(r) == PromiseResolve(r)

\* server.js .on('finish'): the reconciliation, then resolve()
HttpOnFinish(r) ==
    PromiseResolve([r EXCEPT !.skippedFiles =
        Reconcile(r.matchedFiles, Range(r.processedFiles), @)])

\* mcp-server.js .on('finish', resolve)
StdioOnFinish(r) == PromiseResolve(r)

OnFinish(r) ==
    IF r.transport = "http" THEN HttpOnFinish(r) ELSE StdioOnFinish(r)

\* the destination's .on('error'): reject(err)
OnDestError(r, err) == PromiseReject(r, err)

\* {success, pattern, count, files, skipped: length > 0 ? skipped : undefined}
\* as serialised: a property whose value is undefined is left out
BatchOutcome(pattern, processedFiles, skippedFiles) ==
    IF Len(skippedFiles) > 0
    THEN [success |-> TRUE, pattern |-> pattern, count |-> Len(processedFiles),
          files |-> processedFiles, skipped |-> skippedFiles]
    ELSE [success |-> TRUE, pattern |-> pattern, count |-> Len(processedFiles),
          files |-> processedFiles]

HttpFormatFilesThenEmptyIsError(r) ==
    IF Len(r.processedFiles) = 0 /\ Len(r.matchedFiles) = 0
    THEN Respond(r, sendError(500, "Processing failed",
                     "An error occurred while formatting files", None))
    ELSE Respond(r, [status |-> 200,
                     body |-> BatchOutcome(r.pattern, r.processedFiles,
                                           r.skippedFiles)])

\* server.js after the await returned: the empty branch and the response
HttpFormatFilesThen(r) ==
    IF Len(r.processedFiles) = 0 /\ Len(r.matchedFiles) = 0
    THEN Respond(r, [status |-> 200,
                     body |-> [success |-> TRUE, pattern |-> r.pattern,
                               count |-> 0, files |-> <<>>]])
    ELSE Respond(r, [status |-> 200,
                     body |-> BatchOutcome(r.pattern, r.processedFiles,
                                           r.skippedFiles)])

\* server.js catch (error) of the format_files handler
HttpFormatFilesCatch(r, err) ==
    IF Includes(err.message, <<"too", "many", "files">>)
    THEN Respond(r, sendError(422, "Too many files", err.message,
                     Some([pattern |-> "Use a more specific pattern"])))
    ELSE Respond(r, sendError(500, "Processing failed",
                     "An error occurred while formatting files", None))

\* the text of a tools/call result: JSON.stringify(result, null, 2)
ToolResult(r, result) ==
    Respond(r, rpcResult(r.rpc.id,
                 [content |-> <<[type |-> "text", text |-> result]>>]))

\* the continuation of the awaited promise, on either transport
AfterPipeline(r) ==
    IF r.transport = "http"
    THEN IF r.promise = "resolved" THEN HttpFormatFilesThen(r)
         ELSE HttpFormatFilesCatch(r, r.error)
    ELSE IF r.promise = "resolved"
         THEN ToolResult(r, BatchOutcome(r.pattern, r.processedFiles,
                                         r.skippedFiles))
         ELSE RpcCatch(r, r.error)

(* ------------------------------------------------------------------ *)
(* The stdio front-end                                                 *)
(* ------------------------------------------------------------------ *)

\* !v for a JSON value
Falsy(v) == v.t \in {"absent", "null"} \/ (v.t = "string" /\ v.s = <<>>)

ToolFormatFile  == Str(<<"format_file">>)
ToolFormatFiles == Str(<<"format_files">>)

\* the tools/call case of handleRequest
ToolsCall(r) ==
    LET q == r.rpc
    IN  IF ~q.hasParams \/ Falsy(q.name)
        THEN Respond(r, rpcError(q.id, -32602, "Invalid params", "Missing tool name"))
        ELSE IF q.name = ToolFormatFile
        THEN IF Falsy(q.arguments) \/ Falsy(q.arguments.file_path)
             THEN Respond(r, rpcError(q.id, -32602, "Invalid params",
                              "Missing file_path"))
             ELSE [r EXCEPT !.tool = "format_file", !.pc = "access",
                            !.arg = q.arguments.file_path, !.accessCalls = @ + 1]
        ELSE IF q.name = ToolFormatFiles
        THEN StdioFormatFilesEntry([r EXCEPT !.tool = "format_files"],
                                   q.arguments.pattern)
        ELSE Respond(r, rpcError(q.id, -32601, "Method not found",
                         <<"Unknown tool: ", q.name.s>>))

\* async function handleRequest(request), up to its first await
handleRequest(r) ==
    LET q == r.rpc
    IN  IF q.jsonrpc # "2.0"
        THEN Respond(r, rpcError(q.id, -32600, "Invalid Request",
                         "Must be JSON-RPC 2.0"))
        ELSE IF q.method = "initialize"
        THEN Respond(r, rpcResult(q.id,
                 [protocolVersion |-> "2024-11-05",
                  serverInfo |-> [name |-> "editorconfig-mcp-server",
                                  version |-> "1.0.0"]]))
        ELSE IF q.method = "initialized" THEN [r EXCEPT !.pc = "done"]
        ELSE IF q.method = "tools/list"
        THEN Respond(r, rpcResult(q.id,
                 [tools |-> <<"format_file", "format_files">>]))
        ELSE IF q.method = "tools/call" THEN ToolsCall(r)
        ELSE Respond(r, rpcError(q.id, -32601, "Method not found",
                         <<"Unknown method: ", q.method>>))

\* what a line did: the line, and the requests it dispatched
NoLine == [line |-> <<>>, frags |-> <<>>, requests |-> <<>>]

\* the slots of the requests served side by side
Slots == {1, 2}

(* ------------------------------------------------------------------ *)
(* State                                                               *)
(* ------------------------------------------------------------------ *)

VARIABLES
    rq,      \* the request in flight, or the last one answered
    fixed,   \* the tracked regular files whose content has been rewritten
    nbulk,   \* how many files the directory /a/b holds
    hits,    \* the rate limiter's count of requests in the current window
    buffer,  \* mcp-server.js: the text of the lines not yet parsed
    since,   \* the lines received since the last dispatch (history)
    got,     \* the last line received and what it dispatched (history)
    reqs     \* the requests in flight side by side, one per slot

\* mcp-server.js's line reader
stdin == <<buffer, since, got>>

\* requests served side by side
conc == <<reqs>>

\* the state outside the handlers of one request
aside == <<hits, stdin, conc>>

vars == <<rq, fixed, nbulk, aside>>

Init ==
    /\ rq = NoRequest
    /\ fixed = {}
    /\ nbulk \in {0, FileLimit}
    /\ hits = 0
    /\ buffer = <<>>
    /\ since = <<>>
    /\ got = NoLine
    /\ reqs = [i \in Slots |-> NoRequest]

(* ------------------------------------------------------------------ *)
(* Inputs                                                              *)
(* ------------------------------------------------------------------ *)

FilePathStrings ==
    StringsUpTo(MaxPathLen)
    \cup {<<"a", NUL>>, Repeat("a", FilePathMaxLength),
          Repeat("a", FilePathMaxLength + 1)}

FilePathValues == {Str(s) : s \in FilePathStrings} \cup {Absent, NumV, NullV}

\* the file_path arguments of tools/call: the short strings, the sibling
\* directory's file, and the values that are no usable string
RpcFilePathValues ==
    {Str(s) : s \in StringsUpTo(MaxRpcPathLen) \cup {SiblingFile, <<"a", NUL>>}}
    \cup {Absent, NumV, NullV}

PatternValues ==
    {Str(PatAll), Str(PatTop), Str(PatBulk), Str(PatNone), Str(<<>>),
     Str(<<"*", NUL>>), Str(Repeat("a", PatternMaxLength)),
     Str(Repeat("a", PatternMaxLength + 1)), Absent, NumV, NullV}

\* bodies of POST /v1/tools/format_file
FormatFileBodies ==
    {Obj(v, Absent, FALSE) : v \in FilePathValues}
    \cup {Obj(Absent, Absent, TRUE),
          Obj(Str(<<"a">>), Absent, TRUE),
          Obj(Str(<<".", ".", "/", "b">>), Absent, TRUE),
          Obj(Str(<<"a">>), Str(PatTop), FALSE),
          ArrayBody}

\* bodies of POST /v1/tools/format_files
FormatFilesBodies ==
    {Obj(Absent, v, FALSE) : v \in PatternValues}
    \cup {Obj(Absent, Absent, TRUE),
          Obj(Absent, Str(PatTop), TRUE),
          Obj(Str(<<"a">>), Str(PatTop), FALSE),
          ArrayBody}

\* the id of the JSON-RPC requests
RpcId == 7

\* parsed JSON-RPC requests
RpcRequests ==
    {RpcRequest("1.0", "tools/call", TRUE, ToolFormatFile,
                Obj(Str(<<"a">>), Absent, FALSE), RpcId)}
    \cup {RpcRequest("2.0", m, FALSE, Absent, NoArguments, RpcId) :
             m \in {"initialize", "initialized", "tools/list", "tools/call",
                    "resources/list"}}
    \cup {RpcRequest("2.0", "tools/call", TRUE, n, NoArguments, RpcId) :
             n \in {Absent, Str(<<"lint_file">>), ToolFormatFile, ToolFormatFiles}}
    \cup {RpcRequest("2.0", "tools/call", TRUE, ToolFormatFile,
                     Obj(v, Absent, FALSE), RpcId) : v \in RpcFilePathValues}
    \cup {RpcRequest("2.0", "tools/call", TRUE, ToolFormatFiles,
                     Obj(Absent, v, FALSE), RpcId) :
             v \in PatternValues \ {Str(PatAll)}}

(* ------------------------------------------------------------------ *)
(* Actions                                                             *)
(* ------------------------------------------------------------------ *)

\* no request is in flight
Quiescent == rq.pc = "idle"

\* stream events are delivered while the promise is awaited and after the
\* response is out, never between a settlement and its continuation
StreamsRun == rq.promise = "pending" \/ rq.pc = "responded"

\* POST /v1/tools/format_file arrives
HttpFormatFile ==
    /\ Quiescent
    /\ \E body \in FormatFileBodies :
          rq' = HttpFormatFileEntry(NewRequest("http", "format_file", body, NoRpc))
    /\ UNCHANGED <<fixed, nbulk>>
    /\ UNCHANGED aside

\* POST /v1/tools/format_files arrives
HttpFormatFiles ==
    /\ Quiescent
    /\ \E body \in FormatFilesBodies :
          rq' = HttpFormatFilesEntry(NewRequest("http", "format_files", body, NoRpc))
    /\ UNCHANGED <<fixed, nbulk>>
    /\ UNCHANGED aside

\* a JSON-RPC request is dispatched to handleRequest
StdioRequest ==
    /\ Quiescent
    /\ \E rpc \in RpcRequests :
          rq' = handleRequest(NewRequest("stdio", "none", NoArguments, rpc))
    /\ UNCHANGED <<fixed, nbulk>>
    /\ UNCHANGED aside

\* fs.access settles
AccessDone ==
    /\ rq.pc = "access"
    /\ rq' = AfterAccess(rq, FsAccess(rq.arg, nbulk))
    /\ UNCHANGED <<fixed, nbulk>>
    /\ UNCHANGED aside

\* the single-file pipeline finishes or fails
FilePipelineDone ==
    /\ rq.pc = "pipeline"
    /\ LET abs == Resolve(ProjectRoot, rq.arg.s)
       IN  \E o \in FilePipelineOutcomes(abs, nbulk) :
              /\ rq' = AfterFilePipeline(rq, o)
              /\ fixed' = IF o[1] = "written" /\ abs \in TrackedFiles
                          THEN fixed \cup {abs} ELSE fixed
    /\ UNCHANGED nbulk
    /\ UNCHANGED aside

\* fs.stat settles
StatDone ==
    /\ rq.pc = "stat"
    /\ rq' = AfterStat(rq, FileSize(Resolve(ProjectRoot, rq.arg.s), fixed))
    /\ UNCHANGED <<fixed, nbulk>>
    /\ UNCHANGED aside

\* the src stream emits the next matched file
SrcData ==
    /\ StreamsRun
    /\ rq.srcState = "flowing"
    /\ rq.srcPos < NumCandidates(rq.pattern, nbulk)
    /\ Len(rq.queue) < MaxLag
    /\ rq' = OnSrcData([rq EXCEPT !.srcPos = @ + 1],
                       Candidate(rq.pattern, nbulk, rq.srcPos + 1))
    /\ UNCHANGED <<fixed, nbulk>>
    /\ UNCHANGED aside

\* the src stream has emitted every matched file and ends
SrcEnd ==
    /\ StreamsRun
    /\ rq.srcState = "flowing"
    /\ rq.srcPos = NumCandidates(rq.pattern, nbulk)
    /\ rq' = [rq EXCEPT !.srcState = "ended"]
    /\ UNCHANGED <<fixed, nbulk>>
    /\ UNCHANGED aside

\* what eclint.fix() and the destination can do with one file: emit it
\* fixed ('data', then written), fail with or without the file attached to
\* the 'error' event, swallow it, or fail to write it.  Only the files in
\* the project root take every outcome; the files of /a/b are fixed and
\* written.
EclintOutcomes(path) ==
    IF path \in Range(NamedFiles)
    THEN {<<"data", NoError>>, <<"errorWithFile", NoError>>,
          <<"errorWithoutFile", NoError>>, <<"drop", NoError>>}
         \cup {<<"destError", e>> : e \in DestErrors}
    ELSE {<<"data", NoError>>}

\* the handlers run for the formatter's answer on the file at the head
AfterEclint(r, path, o) ==
    LET taken == [r EXCEPT !.queue = Tail(@)]
    IN  IF o[1] = "data"
        THEN [OnEclintData(taken, path) EXCEPT !.writes = @ + 1]
        ELSE IF o[1] = "destError"
        THEN OnDestError([OnEclintData(taken, path) EXCEPT
                              !.srcState = "halted", !.queue = <<>>], o[2])
        ELSE IF o[1] = "errorWithFile"
        THEN [OnEclintError(taken, Some(path)) EXCEPT !.failed = @ \cup {path}]
        ELSE IF o[1] = "errorWithoutFile"
        THEN [OnEclintError(taken, None) EXCEPT !.failed = @ \cup {path}]
        ELSE taken

\* eclint.fix() answers for the oldest file handed to it
EclintAnswer ==
    /\ StreamsRun
    /\ rq.queue # <<>>
    /\ rq.srcState # "halted"
    /\ LET path == Head(rq.queue)
       IN  \E o \in EclintOutcomes(path) :
              /\ rq' = AfterEclint(rq, path, o)
              /\ fixed' = IF o[1] = "data" /\ path \in TrackedFiles
                          THEN fixed \cup {path} ELSE fixed
    /\ UNCHANGED nbulk
    /\ UNCHANGED aside

\* the destination stream emits 'finish': after the src stream ended, and
\* possibly after it was destroyed
DestFinish ==
    /\ StreamsRun
    /\ rq.srcState \in {"ended", "destroyed"}
    /\ rq.queue = <<>>
    /\ ~rq.finished
    /\ rq' = OnFinish([rq EXCEPT !.finished = TRUE])
    /\ UNCHANGED <<fixed, nbulk>>
    /\ UNCHANGED aside

\* the awaited promise has settled and the handler continues
PipelineSettled ==
    /\ rq.pc = "streaming"
    /\ rq.promise \in {"resolved", "rejected"}
    /\ rq' = AfterPipeline(rq)
    /\ UNCHANGED <<fixed, nbulk>>
    /\ UNCHANGED aside

\* the handler has returned and nothing of its pipeline is left to run: its
\* locals are dropped
RequestDone ==
    /\ rq.pc \in {"responded", "done"}
    /\ rq.queue = <<>>
    /\ rq' = NoRequest
    /\ UNCHANGED <<fixed, nbulk>>
    /\ UNCHANGED aside

Next ==
    \/ HttpFormatFile
    \/ HttpFormatFiles
    \/ StdioRequest
    \/ AccessDone
    \/ FilePipelineDone
    \/ StatDone
    \/ SrcData
    \/ SrcEnd
    \/ EclintAnswer
    \/ DestFinish
    \/ PipelineSettled
    \/ RequestDone

Spec == Init /\ [][Next]_vars

(* ------------------------------------------------------------------ *)
(* The HTTP front: body parser, rate limiter, routes                   *)
(* ------------------------------------------------------------------ *)

\* max: 100 requests per window
RateLimitMax == 100

\* how far past the limit the limiter's count is followed
MaxExcess == 2

\* a body express.json() cannot parse, or one over its size limit
MalformedBody == [ArrayBody EXCEPT !.t = "malformed"]

\* the routes with a handler, and two without
RouteFormatFile == "POST /v1/tools/format_file"
RouteFormatFiles == "POST /v1/tools/format_files"
MetadataRoutes == {"GET /openapi.json", "GET /.well-known/mcp/servers.json", "GET /health"}
UnknownRoutes == {"GET /v1/unknown", "GET /v1/tools/format_file"}

\* the request bodies sent through the front
FrontFileBodies ==
    {Obj(Str(<<"a">>), Absent, FALSE), Obj(Str(<<"b">>), Absent, FALSE),
     Obj(Str(<<".", ".">>), Absent, FALSE), Obj(Absent, Absent, FALSE)}

FrontFilesBodies ==
    {Obj(Absent, Str(PatNone), FALSE), Obj(Absent, NumV, FALSE)}

EmptyBody == Obj(Absent, Absent, FALSE)

\* the limiter's handler: res.status(429).json({error, message, hint})
RateLimitHandler(r) ==
    Respond(r, [status |-> 429,
                body |-> [error |-> "Too many requests",
                          message |-> "Rate limit exceeded",
                          hint |-> "Please wait before making more requests"]])

\* a metadata endpoint: res.json(document)
MetadataHandler(r, route) ==
    Respond(r, [status |-> 200, body |-> [document |-> route]])

NotFoundHandlerNoHint(r) ==
    Respond(r, [status |-> 404,
                body |-> [error |-> "Endpoint not found",
                          message |-> "Endpoint not found"]])

\* app.use((req, res) => sendError(res, 404, 'Endpoint not found', ...))
NotFoundHandler(r) ==
    Respond(r, sendError(404, "Endpoint not found",
                  "Check the API documentation at /openapi.json", None))

\* app.use((err, req, res, next) => sendError(res, 500, ...))
ErrorHandler(r) ==
    Respond(r, sendError(500, "Internal server error",
                  "An unexpected error occurred", None))

\* the handler the router picks for a request the limiter let through
Route(route, body) ==
    IF route = RouteFormatFile
    THEN HttpFormatFileEntry(NewRequest("http", "format_file", body, NoRpc))
    ELSE IF route = RouteFormatFiles
    THEN HttpFormatFilesEntry(NewRequest("http", "format_files", body, NoRpc))
    ELSE IF route \in MetadataRoutes
    THEN MetadataHandler(NewRequest("http", "metadata", body, NoRpc), route)
    ELSE NotFoundHandler(NewRequest("http", "unknown", body, NoRpc))

\* the middleware chain for one request: express.json(), the limiter,
\* the routes
Middleware(route, body, count) ==
    IF body.t = "malformed"
    THEN <<ErrorHandler(NewRequest("http", "unknown", body, NoRpc)), count>>
    ELSE IF count + 1 > RateLimitMax
    THEN <<RateLimitHandler(NewRequest("http", "unknown", body, NoRpc)), count + 1>>
    ELSE <<Route(route, body), count + 1>>

\* a request goes through the middleware chain
Arrive(route, body) ==
    /\ rq' = Middleware(route, body, hits)[1]
    /\ hits' = Middleware(route, body, hits)[2]

\* the limiter's count is followed up to MaxExcess requests past the limit
Receiving == Quiescent /\ hits < RateLimitMax + MaxExcess

PostFormatFile ==
    /\ Receiving
    /\ \E body \in FrontFileBodies : Arrive(RouteFormatFile, body)
    /\ UNCHANGED <<fixed, nbulk, stdin, conc>>

PostFormatFiles ==
    /\ Receiving
    /\ \E body \in FrontFilesBodies : Arrive(RouteFormatFiles, body)
    /\ UNCHANGED <<fixed, nbulk, stdin, conc>>

PostMalformed ==
    /\ Receiving
    /\ \E route \in {RouteFormatFile, RouteFormatFiles} : Arrive(route, MalformedBody)
    /\ UNCHANGED <<fixed, nbulk, stdin, conc>>

GetMetadata ==
    /\ Receiving
    /\ \E route \in MetadataRoutes : Arrive(route, EmptyBody)
    /\ UNCHANGED <<fixed, nbulk, stdin, conc>>

OtherRoute ==
    /\ Receiving
    /\ \E route \in UnknownRoutes : Arrive(route, EmptyBody)
    /\ UNCHANGED <<fixed, nbulk, stdin, conc>>

\* the limiter's window ends: the store resets its counts
WindowElapsed ==
    /\ hits > 0
    /\ hits' = 0
    /\ UNCHANGED <<rq, fixed, nbulk, stdin, conc>>

HttpInit ==
    /\ rq = NoRequest
    /\ fixed = {}
    /\ nbulk = 0
    /\ hits = 0
    /\ buffer = <<>>
    /\ since = <<>>
    /\ got = NoLine
    /\ reqs = [i \in Slots |-> NoRequest]

HttpNext ==
    \/ PostFormatFile
    \/ PostFormatFiles
    \/ PostMalformed
    \/ GetMetadata
    \/ OtherRoute
    \/ WindowElapsed
    \/ AccessDone
    \/ FilePipelineDone
    \/ StatDone
    \/ SrcEnd
    \/ DestFinish
    \/ PipelineSettled
    \/ RequestDone

HttpSpec == HttpInit /\ [][HttpNext]_vars

(* ------------------------------------------------------------------ *)
(* The stdio front: lines, the buffer, JSON.parse                      *)
(* ------------------------------------------------------------------ *)

\* the longest line, the most text and the most lines followed between
\* two dispatches
MaxLineLen == 3
MaxSinceLen == 4
MaxLines == 3

\* the characters of a line: the braces of an object, its members
\* ("jsonrpc":"2.0","id":7,"method":"tools/list", written m), white space
LineChars == {"{", "m", "}", " "}

RECURSIVE LinesUpTo(_)
LinesUpTo(n) ==
    IF n = 0 THEN {<<>>}
    ELSE LET shorter == LinesUpTo(n - 1)
         IN  shorter \cup {Append(l, c) : l \in {x \in shorter : Len(x) = n - 1},
                                          c \in LineChars}

\* the lines joined as buffer += line joins them
RECURSIVE Flatten(_)
Flatten(lines) ==
    IF lines = <<>> THEN <<>> ELSE Head(lines) \o Flatten(Tail(lines))

NoSpace(text) == SelectSeq(text, LAMBDA c : c # " ")

\* !line.trim()
Blank(line) == NoSpace(line) = <<>>

\* the request {"jsonrpc":"2.0","id":7,"method":"tools/list"}
ListRequest == RpcRequest("2.0", "tools/list", FALSE, Absent, NoArguments, RpcId)

\* JSON.parse(text): an object with or without its members, white space
\* allowed around every token; anything else throws
JsonParse(text) ==
    IF NoSpace(text) = <<"{", "m", "}">> THEN [ok |-> TRUE, value |-> ListRequest]
    ELSE IF NoSpace(text) = <<"{", "}">> THEN [ok |-> TRUE, value |-> NoRpc]
    ELSE [ok |-> FALSE, value |-> NoRpc]

OnLineKeepBuffer(buf, line) ==
    LET text == buf \o line
    IN  IF JsonParse(text).ok
        THEN [buffer |-> text, requests |-> <<JsonParse(text).value>>]
        ELSE [buffer |-> IF Blank(line) THEN <<>> ELSE text, requests |-> <<>>]

\* rl.on('line'): the buffer afterwards and the requests handed to
\* handleRequest
OnLine(buf, line) ==
    LET text == buf \o line
    IN  IF JsonParse(text).ok
        THEN [buffer |-> <<>>, requests |-> <<JsonParse(text).value>>]
        ELSE [buffer |-> IF Blank(line) THEN <<>> ELSE text, requests |-> <<>>]

\* a line arrives on stdin
StdioLine ==
    /\ Len(since) < MaxLines
    /\ \E line \in LinesUpTo(MaxLineLen) :
          /\ Len(Flatten(since)) + Len(line) <= MaxSinceLen
          /\ LET o == OnLine(buffer, line)
             IN  /\ buffer' = o.buffer
                 /\ got' = [line |-> line, frags |-> Append(since, line),
                            requests |-> o.requests]
                 /\ since' = IF o.requests = <<>> THEN Append(since, line) ELSE <<>>
                 /\ rq' = IF o.requests = <<>> THEN rq
                          ELSE handleRequest(NewRequest("stdio", "none", NoArguments,
                                                        o.requests[1]))
    /\ UNCHANGED <<fixed, nbulk, hits, conc>>

FramingInit ==
    /\ rq = NoRequest
    /\ fixed = {}
    /\ nbulk = 0
    /\ hits = 0
    /\ buffer = <<>>
    /\ since = <<>>
    /\ got = NoLine
    /\ reqs = [i \in Slots |-> NoRequest]

FramingNext == StdioLine

FramingSpec == FramingInit /\ [][FramingNext]_vars

(* ------------------------------------------------------------------ *)
(* Requests side by side                                               *)
(* ------------------------------------------------------------------ *)

\* the files of /a/b while requests run side by side
ConcBulk == 2

\* the patterns of the requests that run side by side: the first slot
\* takes either pattern, the others the directory's
ConcPatterns(i) == IF i = 1 THEN {PatTop, PatBulk} ELSE {PatBulk}

\* the id of the JSON-RPC request in slot i
ConcId(i) == RpcId + i - 1

\* the variables a handler invocation reads: the ones its closure declares
Locals(rs, i) == rs[i]

StoreShared(rs, i, r) ==
    [j \in Slots |->
        IF j = i THEN r
        ELSE [rs[j] EXCEPT !.fileCount = r.fileCount,
                           !.matchedFiles = r.matchedFiles,
                           !.processedFiles = r.processedFiles,
                           !.skippedFiles = r.skippedFiles]]

\* the variables a handler invocation writes: const matchedFiles,
\* processedFiles, skippedFiles and let fileCount are declared inside the
\* handler, so every invocation has its own
Store(rs, i, r) == [rs EXCEPT ![i] = r]

StreamsRunOf(r) == r.promise = "pending" \/ r.pc = "responded"

\* one process serves one transport
SameProcess(t) == \A j \in Slots : reqs[j].transport \in {"none", t}

\* POST /v1/tools/format_files arrives while other requests are in flight
ConcHttpFormatFiles ==
    /\ SameProcess("http")
    /\ \E i \in Slots : \E p \in ConcPatterns(i) :
          /\ Locals(reqs, i).pc = "idle"
          /\ reqs' = Store(reqs, i,
                 HttpFormatFilesEntry(NewRequest("http", "format_files",
                                                 Obj(Absent, Str(p), FALSE), NoRpc)))
    /\ UNCHANGED <<rq, fixed, nbulk, hits, stdin>>

\* a tools/call format_files line is dispatched while others are in flight
ConcStdioRequest ==
    /\ SameProcess("stdio")
    /\ \E i \in Slots : \E p \in ConcPatterns(i) :
          /\ Locals(reqs, i).pc = "idle"
          /\ reqs' = Store(reqs, i,
                 handleRequest(NewRequest("stdio", "none", NoArguments,
                     RpcRequest("2.0", "tools/call", TRUE, ToolFormatFiles,
                                Obj(Absent, Str(p), FALSE), ConcId(i)))))
    /\ UNCHANGED <<rq, fixed, nbulk, hits, stdin>>

ConcSrcData ==
    /\ \E i \in Slots :
          LET r == Locals(reqs, i)
          IN  /\ StreamsRunOf(r)
              /\ r.srcState = "flowing"
              /\ r.srcPos < NumCandidates(r.pattern, nbulk)
              /\ Len(r.queue) < MaxLag
              /\ reqs' = Store(reqs, i,
                     OnSrcData([r EXCEPT !.srcPos = @ + 1],
                               Candidate(r.pattern, nbulk, r.srcPos + 1)))
    /\ UNCHANGED <<rq, fixed, nbulk, hits, stdin>>

ConcSrcEnd ==
    /\ \E i \in Slots :
          LET r == Locals(reqs, i)
          IN  /\ StreamsRunOf(r)
              /\ r.srcState = "flowing"
              /\ r.srcPos = NumCandidates(r.pattern, nbulk)
              /\ reqs' = Store(reqs, i, [r EXCEPT !.srcState = "ended"])
    /\ UNCHANGED <<rq, fixed, nbulk, hits, stdin>>

ConcEclintAnswer ==
    /\ \E i \in Slots :
          LET r == Locals(reqs, i)
          IN  /\ StreamsRunOf(r)
              /\ r.queue # <<>>
              /\ r.srcState # "halted"
              /\ \E o \in EclintOutcomes(Head(r.queue)) :
                    /\ reqs' = Store(reqs, i, AfterEclint(r, Head(r.queue), o))
                    /\ fixed' = IF o[1] = "data" /\ Head(r.queue) \in TrackedFiles
                                THEN fixed \cup {Head(r.queue)} ELSE fixed
    /\ UNCHANGED <<rq, nbulk, hits, stdin>>

ConcDestFinish ==
    /\ \E i \in Slots :
          LET r == Locals(reqs, i)
          IN  /\ StreamsRunOf(r)
              /\ r.srcState \in {"ended", "destroyed"}
              /\ r.queue = <<>>
              /\ ~r.finished
              /\ reqs' = Store(reqs, i, OnFinish([r EXCEPT !.finished = TRUE]))
    /\ UNCHANGED <<rq, fixed, nbulk, hits, stdin>>

ConcPipelineSettled ==
    /\ \E i \in Slots :
          LET r == Locals(reqs, i)
          IN  /\ r.pc = "streaming"
              /\ r.promise \in {"resolved", "rejected"}
              /\ reqs' = Store(reqs, i, AfterPipeline(r))
    /\ UNCHANGED <<rq, fixed, nbulk, hits, stdin>>

ConcRequestDone ==
    /\ \E i \in Slots :
          LET r == Locals(reqs, i)
          IN  /\ r.pc \in {"responded", "done"}
              /\ r.queue = <<>>
              /\ reqs' = Store(reqs, i, NoRequest)
    /\ UNCHANGED <<rq, fixed, nbulk, hits, stdin>>

ConcInit ==
    /\ rq = NoRequest
    /\ fixed = {}
    /\ nbulk = ConcBulk
    /\ hits = 0
    /\ buffer = <<>>
    /\ since = <<>>
    /\ got = NoLine
    /\ reqs = [i \in Slots |-> NoRequest]

ConcNext ==
    \/ ConcHttpFormatFiles
    \/ ConcStdioRequest
    \/ ConcSrcData
    \/ ConcSrcEnd
    \/ ConcEclintAnswer
    \/ ConcDestFinish
    \/ ConcPipelineSettled
    \/ ConcRequestDone

ConcSpec == ConcInit /\ [][ConcNext]_vars

(* ------------------------------------------------------------------ *)
(* Vocabulary of the properties                                        *)
(* ------------------------------------------------------------------ *)

HttpFile  == rq.transport = "http" /\ rq.tool = "format_file"
HttpFiles == rq.transport = "http" /\ rq.tool = "format_files"

\* the segments of the project root
RootSegs == ResolveSegs(ProjectRoot, <<>>)

\* the normalized absolute form of p is the project root or lies below it
InsideRoot(p) ==
    LET segs == ResolveSegs(ProjectRoot, p)
    IN  Len(segs) >= Len(RootSegs) /\ SubSeq(segs, 1, Len(RootSegs)) = RootSegs

\* ... lies below it
StrictlyInsideRoot(p) ==
    InsideRoot(p) /\ Len(ResolveSegs(ProjectRoot, p)) > Len(RootSegs)

\* no segment of p is the parent directory
NoParentSegment(p) == <<".", ".">> \notin Range(Split(p))

\* the file_path is a usable path with no entry in the filesystem
PathMissing(v, nb) ==
    /\ v.t = "string"
    /\ \A i \in 1..Len(v.s) : v.s[i] # NUL
    /\ ~IsFile(Resolve(ProjectRoot, v.s), nb)
    /\ ~IsDir(Resolve(ProjectRoot, v.s), nb)

\* a body that violates the schema of the endpoint whose property is prop
ShapeViolation(body, prop, maxLength) ==
    \/ body.t # "object"
    \/ body.extra
    \/ OtherProp(body, prop).t # "absent"
    \/ prop = "file_path" /\ Prop(body, prop).t = "absent"
    \/ Prop(body, prop).t \in {"number", "null"}
    \/ /\ Prop(body, prop).t = "string"
       /\ \/ Len(Prop(body, prop).s) = 0
          \/ Len(Prop(body, prop).s) > maxLength
          \/ NUL \in Range(Prop(body, prop).s)

InvalidInputFile ==
    sendError(422, "Invalid input", "Check the file_path field",
              Some([file_path |-> "string (path to file)"]))

InvalidInputFiles ==
    sendError(422, "Invalid input", "Check the pattern field",
              Some([pattern |-> "string (glob pattern, optional)"]))

ForbiddenPath ==
    sendError(403, "Forbidden path",
              "File path must be within the project directory", None)

\* nothing beyond validation has run for the request
NothingStarted ==
    /\ rq.accessCalls = 0
    /\ rq.adapterCalls = 0
    /\ rq.writes = 0
    /\ rq.srcState = "none"
    /\ rq.promise = "none"

\* the candidates the src stream has emitted so far
Enumerated == [i \in 1..rq.srcPos |-> Candidate(rq.pattern, nbulk, i)]

\* the Outcome Record of an answered batch request, on either transport
IsBatchSuccess ==
    /\ rq.tool = "format_files"
    /\ rq.pc = "responded"
    /\ IF rq.transport = "http" THEN rq.res[1].status = 200
       ELSE "result" \in DOMAIN rq.res[1]

BatchRecord ==
    IF rq.transport = "http" THEN rq.res[1].body
    ELSE rq.res[1].result.content[1].text

SkippedOf(record) ==
    IF "skipped" \in DOMAIN record THEN record.skipped ELSE <<>>

TooManyFiles(response) ==
    response.status = 422 /\ response.body.error = "Too many files"

(* ------------------------------------------------------------------ *)
(* C1 .. C10                                                           *)
(* ------------------------------------------------------------------ *)

\* C1: a format_file request whose file_path resolves outside the project
\* root is refused by isPathSafe and answered 403 'Forbidden path'.
C1_OutsideRootIsForbidden ==
    (HttpFile /\ validateFormatFile(rq.body) /\ ~InsideRoot(rq.body.file_path.s))
        => /\ ~isPathSafe(rq.body.file_path.s)
           /\ rq.pc = "responded"
           /\ rq.res = <<ForbiddenPath>>

\* C2: a format_file request whose file_path resolves strictly inside the
\* project root and has no '..' segment is accepted by isPathSafe, also when
\* a name in it holds two consecutive dots.
C2_InsideRootIsSafe ==
    (/\ HttpFile
     /\ validateFormatFile(rq.body)
     /\ StrictlyInsideRoot(rq.body.file_path.s)
     /\ NoParentSegment(rq.body.file_path.s))
        => /\ isPathSafe(rq.body.file_path.s)
           /\ rq.res # <<ForbiddenPath>>

\* C3: on format_file the schema is checked first and the path second, and
\* a request refused by either (422 'Invalid input', 403 'Forbidden path')
\* has called neither fs.access nor the formatter and has written nothing;
\* the step that refuses it leaves the filesystem as it was.
C3_Refused ==
    /\ HttpFile
    /\ rq.pc = "responded"
    /\ rq.res[1].status \in {422, 403}

C3_RefusedBeforeAnyEffect ==
    /\ [](HttpFile =>
            /\ ShapeViolation(rq.body, "file_path", FilePathMaxLength)
                  => rq.pc = "responded" /\ rq.res = <<InvalidInputFile>>
            /\ (/\ ~ShapeViolation(rq.body, "file_path", FilePathMaxLength)
                /\ ~isPathSafe(rq.body.file_path.s))
                  => rq.pc = "responded" /\ rq.res = <<ForbiddenPath>>
            /\ (rq.pc = "responded" /\ rq.res[1].status = 403)
                  => ~ShapeViolation(rq.body, "file_path", FilePathMaxLength)
            /\ C3_Refused => NothingStarted)
    /\ [][C3_Refused' => fixed' = fixed]_vars

\* the schema and the path check both fail, and the answer is the schema's
C3_Witness ==
    /\ C3_Refused
    /\ rq.body.extra
    /\ rq.body.file_path.t = "string"
    /\ ~InsideRoot(rq.body.file_path.s)
    /\ rq.res = <<InvalidInputFile>>

C5_CandidatesPartitioned ==
    (HttpFiles /\ IsBatchSuccess)
        => LET all == BatchRecord.files \o SkippedOf(BatchRecord)
           IN  /\ rq.srcPos = NumCandidates(rq.pattern, nbulk)
               /\ Len(all) = rq.srcPos
               /\ Range(all) = Range(Enumerated)
               /\ Cardinality(Range(all)) = Len(all)

\* a file the formatter swallowed is reported under skipped, next to a file
\* it fixed
C5_Witness ==
    /\ HttpFiles
    /\ IsBatchSuccess
    /\ rq.failed = {}
    /\ BatchRecord.files # <<>>
    /\ SkippedOf(BatchRecord) # <<>>

\* C6: in every successful batch record count = files.length, and skipped
\* is there exactly when a candidate was not formatted, never as [].
C6_CountAndSkipped ==
    IsBatchSuccess
        => /\ BatchRecord.count = Len(BatchRecord.files)
           /\ "skipped" \in DOMAIN BatchRecord => BatchRecord.skipped # <<>>
           /\ "skipped" \in DOMAIN BatchRecord
                 <=> \E i \in 1..rq.srcPos :
                        Enumerated[i] \notin Range(BatchRecord.files)

C9_PartialFailureIsolated ==
    (/\ rq.tool = "format_files"
     /\ rq.pc = "responded"
     /\ rq.promise = "resolved"
     /\ rq.failed # {})
        => /\ IsBatchSuccess
           /\ rq.failed \subseteq Range(SkippedOf(BatchRecord))
           /\ rq.adapterCalls = NumCandidates(rq.pattern, nbulk)
           /\ Range(Enumerated)
                 \subseteq Range(BatchRecord.files) \cup Range(SkippedOf(BatchRecord))

\* C10: a body that violates the schema is answered 422 'Invalid input' on
\* both HTTP endpoints with nothing started for it, and a format_files body
\* without pattern runs the pipeline with '**/*'.
C10_ShapeValidation ==
    /\ HttpFile =>
          (ShapeViolation(rq.body, "file_path", FilePathMaxLength)
              => /\ rq.pc = "responded"
                 /\ rq.res = <<InvalidInputFile>>
                 /\ NothingStarted)
    /\ HttpFiles =>
          /\ ShapeViolation(rq.body, "pattern", PatternMaxLength)
                => /\ rq.pc = "responded"
                   /\ rq.res = <<InvalidInputFiles>>
                   /\ NothingStarted
          /\ rq.body = Obj(Absent, Absent, FALSE)
                => /\ rq.pattern = PatAll
                   /\ rq.srcState # "none"
                   /\ \A k \in 1..Len(rq.res) : rq.res[k].status # 422 \/ TooManyFiles(rq.res[k])
                   /\ IsBatchSuccess => BatchRecord.pattern = PatAll

\* the default pattern has run and answered
C10_Witness ==
    /\ HttpFiles
    /\ rq.body = Obj(Absent, Absent, FALSE)
    /\ IsBatchSuccess
    /\ BatchRecord.count > 0

(* ------------------------------------------------------------------ *)
(* C11 .. C17                                                          *)
(* ------------------------------------------------------------------ *)

StdioCall(tool) ==
    /\ rq.transport = "stdio"
    /\ rq.rpc.jsonrpc = "2.0"
    /\ rq.rpc.method = "tools/call"
    /\ rq.rpc.hasParams
    /\ rq.rpc.name = tool
    /\ rq.rpc.arguments.t = "object"

\* the answer to a stdio request is an error
RpcRefused == rq.pc = "responded" /\ "error" \in DOMAIN rq.res[1]

\* C11: a tools/call over stdio is decided as the HTTP endpoint decides the
\* same arguments: arguments the schema refuses, and a file_path the Path
\* Validator refuses, are answered with an error and nothing started; and a
\* batch record accounts for every enumerated candidate under files or
\* skipped.
C11_TransportsIsomorphic ==
    /\ (StdioCall(ToolFormatFile) /\ rq.pc # "start")
          => /\ ~validateFormatFile(rq.rpc.arguments)
                   => RpcRefused /\ NothingStarted
             /\ (/\ validateFormatFile(rq.rpc.arguments)
                 /\ ~isPathSafe(rq.rpc.arguments.file_path.s))
                   => RpcRefused /\ NothingStarted
    /\ (StdioCall(ToolFormatFiles) /\ rq.pc # "start")
          => /\ ~validateFormatFiles(rq.rpc.arguments)
                   => RpcRefused /\ NothingStarted
             /\ IsBatchSuccess
                   => Range(Enumerated) \subseteq
                         Range(BatchRecord.files) \cup Range(SkippedOf(BatchRecord))

\* the texts of the exceptions the filesystem, the glob library and the
\* destination stream raise
InternalMessages ==
    {e.message : e \in DestErrors}
    \cup {FsError(c).message : c \in {"ERR_INVALID_ARG_TYPE", "ERR_INVALID_ARG_VALUE"}}
    \cup {InvalidGlobError.message}

Leaks(text) == \E m \in InternalMessages : Len(m) = Len(text) /\ m = text

ProcessingFailed(hint) == sendError(500, "Processing failed", hint, None)

\* C12: an exception that reaches the transport boundary is answered 500
\* with the fixed generic body on HTTP and -32000 on stdio, and no field of
\* the response carries the text of the exception.
C12_NoInternalDetail ==
    (rq.pc = "responded" /\ rq.tool \in {"format_file", "format_files"})
        => IF rq.transport = "http"
           THEN /\ rq.res[1].status = 500
                      => rq.res[1] \in
                            {ProcessingFailed("An error occurred while formatting the file"),
                             ProcessingFailed("An error occurred while formatting files")}
                /\ TooManyFiles(rq.res[1])
                      => rq.res[1].body.hint = TooManyFilesError.message
           ELSE ("error" \in DOMAIN rq.res[1] /\ rq.res[1].error.code = -32000)
                      => /\ rq.res[1].error.message = "Server error"
                         /\ ~Leaks(rq.res[1].error.data)

\* the request was turned away by the rate limiter
RateLimited ==
    rq.transport = "http" /\ rq.pc = "responded" /\ rq.res[1].status = 429

\* C13: every HTTP response outside 2xx has a body with error, message and
\* hint, and expected_format or nothing else; a request to a route without a
\* handler is answered 404 'Endpoint not found', and a request over the
\* rate limit 429, both in that shape and with nothing started.
C13_ErrorBodyShape ==
    /\ []((rq.transport = "http" /\ rq.pc = "responded")
            => /\ Len(rq.res) = 1
               /\ rq.res[1].status \notin 200..299
                     => DOMAIN rq.res[1].body \in
                           {{"error", "message", "hint"},
                            {"error", "message", "hint", "expected_format"}})
    /\ [][hits' = hits + 1
            => IF hits' > RateLimitMax
               THEN RateLimited' /\ NothingStarted'
               ELSE /\ ~RateLimited'
                    /\ rq'.tool = "unknown"
                          => /\ rq'.pc = "responded"
                             /\ rq'.res[1].status = 404
                             /\ rq'.res[1].body.error = "Endpoint not found"
                             /\ NothingStarted']_vars

\* the request after the hundredth of a window has been turned away
C13_Witness == RateLimited /\ hits = RateLimitMax + 1 /\ NothingStarted

\* the last line dispatched a request
Dispatched == got.requests # <<>>

NoBlank(lines) == \A k \in 1..Len(lines) : ~Blank(lines[k])

C15_Recovery ==
    (JsonParse(got.line).ok /\ JsonParse(got.line).value = ListRequest)
        => /\ got.requests = <<ListRequest>>
           /\ rq.rpc = ListRequest
           /\ rq.pc = "responded"
           /\ "result" \in DOMAIN rq.res[1]

\* a format_file or format_files request that passed validation
Accepted ==
    /\ rq.tool \in {"format_file", "format_files"}
    /\ ~NothingStarted

\* a step of the request's handler or of its pipeline is possible: an
\* awaited call settles, a stream emits an event, or the handler continues
CanStep ==
    \/ rq.pc \in {"access", "pipeline", "stat"}
    \/ rq.pc = "streaming" /\ rq.promise \in {"resolved", "rejected"}
    \/ /\ StreamsRun
       /\ \/ /\ rq.srcState = "flowing"
             /\ \/ rq.srcPos = NumCandidates(rq.pattern, nbulk)
                \/ Len(rq.queue) < MaxLag
          \/ rq.queue # <<>> /\ rq.srcState # "halted"
          \/ /\ rq.srcState \in {"ended", "destroyed"}
             /\ rq.queue = <<>>
             /\ ~rq.finished

\* C16: an accepted request has at most one response, has exactly one once
\* its handler is through, and until then a step of its handler or of its
\* pipeline is always possible: it cannot be left without a response.
C16_ExactlyOneResponse ==
    Accepted
        => /\ Len(rq.res) <= 1
           /\ rq.pc = "responded" => Len(rq.res) = 1
           /\ rq.pc # "responded" => CanStep

\* the candidates the src stream of the request in slot i has emitted
EnumeratedOf(i) ==
    {Candidate(reqs[i].pattern, nbulk, k) : k \in 1..reqs[i].srcPos}

\* the response of the request in slot i belongs to that request
OwnResponse(i) ==
    LET r == reqs[i]
        record == IF r.transport = "http" THEN r.res[1].body
                  ELSE r.res[1].result.content[1].text
    IN  /\ Len(r.res) = 1
        /\ r.transport = "stdio" => r.res[1].id = ConcId(i)
        /\ (r.promise = "resolved")
              => /\ record.pattern = r.pattern
                 /\ record.files = r.processedFiles
                 /\ Range(record.files) \cup Range(SkippedOf(record))
                       \subseteq EnumeratedOf(i)

\* C17: with requests interleaved, the candidate, files and skipped lists
\* of each hold only paths enumerated for it, its counter counts its own
\* candidates, its response carries its own outcome and id, and a step of
\* one request changes no variable of another.
C17_Isolation ==
    /\ [](\A i \in Slots :
            /\ Range(reqs[i].matchedFiles) \cup Range(reqs[i].processedFiles)
                  \cup Range(reqs[i].skippedFiles) \subseteq EnumeratedOf(i)
            /\ reqs[i].fileCount = reqs[i].srcPos
            /\ reqs[i].pc = "responded" => OwnResponse(i))
    /\ [][\A i \in Slots :
            reqs'[i] # reqs[i] => \A j \in Slots \ {i} : reqs'[j] = reqs[j]]_vars

\* one request has answered with its files while the other, on another
\* pattern, is in the middle of its enumeration
C17_Witness ==
    /\ reqs[1].pc = "responded"
    /\ reqs[1].promise = "resolved"
    /\ reqs[1].pattern = PatTop
    /\ reqs[1].processedFiles # <<>>
    /\ reqs[1].skippedFiles # <<>>
    /\ reqs[2].pc = "streaming"
    /\ reqs[2].pattern = PatBulk
    /\ reqs[2].fileCount = 1

====
